---------------------------- MODULE Spec2Model ----------------------------
(***************************************************************************)
(* Model of src/main.py: conversion of a password-manager CSV export into  *)
(* the Bitwarden CSV import schema.                                        *)
(*                                                                         *)
(* A Python str is a sequence of one-character strings, so that strip,     *)
(* lower, re.sub, re.match and urlparse are computed character by character*)
(* as the code computes them.  The Python value None is the one-element    *)
(* sequence None below, which is no sequence of characters.                *)
(***************************************************************************)
EXTENDS Integers, Sequences, FiniteSets, TLC

(***************************************************************************)
(* Bounds of the model.                                                    *)
(***************************************************************************)
MaxRows == 2
MaxPieces == 3
MaxHeaders == 3

(***************************************************************************)
(* Characters and strings.                                                 *)
(***************************************************************************)
None == <<"None">>

EmptyStr == <<>>

\* The characters str.strip() removes and the regex class \s matches.
Whitespace == {" ", "\t", "\n", "\r"}

UpperLetters == <<"A","B","C","D","E","F","G","H","I","J","K","L","M",
                  "N","O","P","Q","R","S","T","U","V","W","X","Y","Z">>

LowerLetters == <<"a","b","c","d","e","f","g","h","i","j","k","l","m",
                  "n","o","p","q","r","s","t","u","v","w","x","y","z">>

Digits == {"0","1","2","3","4","5","6","7","8","9"}

Letters == {UpperLetters[i] : i \in 1..26} \cup {LowerLetters[i] : i \in 1..26}

HexDigits == Digits \cup {"a","b","c","d","e","f","A","B","C","D","E","F"}

\* str.lower() on one character.
LowerChar(c) ==
    IF \E i \in 1..26 : UpperLetters[i] = c
    THEN LowerLetters[CHOOSE i \in 1..26 : UpperLetters[i] = c]
    ELSE c

\* str.lower()
lower(s) == [i \in 1..Len(s) |-> LowerChar(s[i])]

\* str.upper() on the ASCII letters (used to state case-insensitivity).
UpperChar(c) ==
    IF \E i \in 1..26 : LowerLetters[i] = c
    THEN UpperLetters[CHOOSE i \in 1..26 : LowerLetters[i] = c]
    ELSE c

upper(s) == [i \in 1..Len(s) |-> UpperChar(s[i])]

\* A Python slice, with 1-based inclusive bounds: clipped to the string,
\* empty when nothing is left.
Slice(s, i, j) ==
    LET a == IF i < 1 THEN 1 ELSE i
        b == IF j > Len(s) THEN Len(s) ELSE j
    IN  IF a > b THEN <<>> ELSE SubSeq(s, a, b)

\* Index of the first / last character not in Whitespace (0 if none).
FirstNonSpace(s) ==
    IF \E i \in 1..Len(s) : s[i] \notin Whitespace
    THEN CHOOSE i \in 1..Len(s) :
           /\ s[i] \notin Whitespace
           /\ \A j \in 1..(i-1) : s[j] \in Whitespace
    ELSE 0

LastNonSpace(s) ==
    IF \E i \in 1..Len(s) : s[i] \notin Whitespace
    THEN CHOOSE i \in 1..Len(s) :
           /\ s[i] \notin Whitespace
           /\ \A j \in (i+1)..Len(s) : s[j] \in Whitespace
    ELSE 0

\* str.strip()
strip(s) ==
    IF FirstNonSpace(s) = 0 THEN <<>>
    ELSE Slice(s, FirstNonSpace(s), LastNonSpace(s))

\* The Python idiom (s or ""): None and "" both give "".
OrEmpty(s) == IF s = None THEN EmptyStr ELSE s

\* Python truthiness of an Optional[str].
Truthy(s) == s # None /\ s # EmptyStr

\* Index of the first occurrence of character c in s (0 if none): str.find.
Find(s, c) ==
    IF \E i \in 1..Len(s) : s[i] = c
    THEN CHOOSE i \in 1..Len(s) : s[i] = c /\ \A j \in 1..(i-1) : s[j] # c
    ELSE 0

\* Index of the last occurrence of character c in s (0 if none): str.rfind.
RFind(s, c) ==
    IF \E i \in 1..Len(s) : s[i] = c
    THEN CHOOSE i \in 1..Len(s) : s[i] = c /\ \A j \in (i+1)..Len(s) : s[j] # c
    ELSE 0

\* Whether pat occurs in s starting at index i.
OccursAt(s, pat, i) ==
    /\ i >= 1
    /\ i + Len(pat) - 1 <= Len(s)
    /\ \A k \in 1..Len(pat) : s[i + k - 1] = pat[k]

\* pat in s
Contains(s, pat) == \E i \in 1..(Len(s) + 1) : OccursAt(s, pat, i)

IsSeparator(c) == c \in Whitespace \cup {"_", "-"}

NotSeparator(c) == ~IsSeparator(c)

\* norm(s): re.sub(r"[\s_\-]+", "", (s or "").strip().lower())
norm(s) == SelectSeq(lower(strip(OrEmpty(s))), NotSeparator)

(***************************************************************************)
(* Header Mapper: build_field_map.                                         *)
(***************************************************************************)
\* The keys of the candidates dict, in its literal order.
Keys == <<"title", "url", "username", "password", "notes", "totp",
          "folder", "favorite">>

KeySet == {Keys[i] : i \in 1..Len(Keys)}

\* candidates: semantic key -> recognised header names, in priority order.
candidates ==
    [
      title |->
        << <<"t","i","t","l","e">>,
           <<"n","a","m","e">>,
           <<"w","e","b","s","i","t","e"," ","n","a","m","e">>,
           <<"s","i","t","e">>,
           <<"s","e","r","v","i","c","e">> >>,
      url |->
        << <<"u","r","l">>,
           <<"w","e","b","s","i","t","e">>,
           <<"w","e","b","s","i","t","e"," ","u","r","l">>,
           <<"w","e","b","s","i","t","e","u","r","l">>,
           <<"u","r","i">>,
           <<"l","i","n","k">> >>,
      username |->
        << <<"u","s","e","r","n","a","m","e">>,
           <<"u","s","e","r"," ","n","a","m","e">>,
           <<"l","o","g","i","n">>,
           <<"a","c","c","o","u","n","t">>,
           <<"e","m","a","i","l">> >>,
      password |->
        << <<"p","a","s","s","w","o","r","d">>,
           <<"p","a","s","s">>,
           <<"p","a","s","s","w","d">> >>,
      notes |->
        << <<"n","o","t","e","s">>,
           <<"n","o","t","e">>,
           <<"c","o","m","m","e","n","t","s">>,
           <<"c","o","m","m","e","n","t">> >>,
      totp |->
        << <<"o","t","p">>,
           <<"t","o","t","p">>,
           <<"o","n","e","-","t","i","m","e"," ","p","a","s","s","w","o","r","d">>,
           <<"o","n","e","t","i","m","e","p","a","s","s","w","o","r","d">>,
           <<"v","e","r","i","f","i","c","a","t","i","o","n"," ","c","o","d","e">>,
           <<"v","e","r","i","f","i","c","a","t","i","o","n","c","o","d","e">>,
           <<"2","f","a">>,
           <<"t","w","o","-","f","a","c","t","o","r">>,
           <<"t","w","o","f","a","c","t","o","r">>,
           <<"a","u","t","h","e","n","t","i","c","a","t","o","r">> >>,
      folder |->
        << <<"f","o","l","d","e","r">>,
           <<"g","r","o","u","p">>,
           <<"c","a","t","e","g","o","r","y">>,
           <<"c","o","l","l","e","c","t","i","o","n">> >>,
      favorite |->
        << <<"f","a","v","o","r","i","t","e">>,
           <<"f","a","v","o","u","r","i","t","e">>,
           <<"s","t","a","r">>,
           <<"s","t","a","r","r","e","d">> >>
    ]

\* BW_HEADER: the Bitwarden columns, in the required order.
BW_HEADER ==
    << <<"f","o","l","d","e","r">>,
       <<"f","a","v","o","r","i","t","e">>,
       <<"t","y","p","e">>,
       <<"n","a","m","e">>,
       <<"n","o","t","e","s">>,
       <<"f","i","e","l","d","s">>,
       <<"l","o","g","i","n","_","u","r","i">>,
       <<"l","o","g","i","n","_","u","s","e","r","n","a","m","e">>,
       <<"l","o","g","i","n","_","p","a","s","s","w","o","r","d">>,
       <<"l","o","g","i","n","_","t","o","t","p">> >>

\* Mutant of by_norm: on a collision the first header is kept.
by_norm_first(headers) ==
    [n \in {norm(headers[i]) : i \in 1..Len(headers)} |->
        headers[CHOOSE i \in 1..Len(headers) :
                  /\ norm(headers[i]) = n
                  /\ \A j \in 1..(i-1) : norm(headers[j]) # n]]

\* by_norm = {norm(h): h for h in headers}: a dict comprehension, so a later
\* header with the same normal form replaces an earlier one.
by_norm(headers) ==
    [n \in {norm(headers[i]) : i \in 1..Len(headers)} |->
        headers[CHOOSE i \in 1..Len(headers) :
                  /\ norm(headers[i]) = n
                  /\ \A j \in (i+1)..Len(headers) : norm(headers[j]) # n]]

\* nn = norm(n), for every name n of every key of candidates.
normalized_candidates ==
    [k \in KeySet |-> [i \in 1..Len(candidates[k]) |-> norm(candidates[k][i])]]

\* The inner loop "for n in names: nn = norm(n); if nn in by_norm: ...;
\* break": the index of the first name whose normal form is a key of bn,
\* 0 if none.
FirstMatch(k, bn) ==
    IF \E i \in 1..Len(candidates[k]) : normalized_candidates[k][i] \in DOMAIN bn
    THEN CHOOSE i \in 1..Len(candidates[k]) :
           /\ normalized_candidates[k][i] \in DOMAIN bn
           /\ \A j \in 1..(i-1) : normalized_candidates[k][j] \notin DOMAIN bn
    ELSE 0

\* Mutant of build_field_map: the headers are scanned in file order and the
\* first header that is any synonym of the key wins.
build_field_map_by_header_order(headers) ==
    LET IsSyn(k, h) == \E i \in 1..Len(candidates[k]) :
                          normalized_candidates[k][i] = norm(h)
        K == {k \in KeySet : \E i \in 1..Len(headers) : IsSyn(k, headers[i])}
    IN  [k \in K |->
            headers[CHOOSE i \in 1..Len(headers) :
                      /\ IsSyn(k, headers[i])
                      /\ \A j \in 1..(i-1) : ~IsSyn(k, headers[j])]]

\* build_field_map(headers): semantic key -> actual header name; a key with
\* no matching synonym is not in the domain.
build_field_map(headers) ==
    LET bn == by_norm(headers)
        K  == {k \in KeySet : FirstMatch(k, bn) # 0}
    IN  [k \in K |-> bn[normalized_candidates[k][FirstMatch(k, bn)]]]

(***************************************************************************)
(* to_bool_favorite.                                                       *)
(***************************************************************************)
TruthyTokens ==
    { <<"1">>, <<"t","r","u","e">>, <<"y","e","s">>, <<"y">>, <<"o","n">> }

\* Mutant of to_bool_favorite: the value is only stripped and lowercased.
to_bool_favorite_strip_only(val) ==
    IF lower(strip(OrEmpty(val))) \in TruthyTokens THEN <<"1">> ELSE EmptyStr

\* to_bool_favorite(val)
to_bool_favorite(val) ==
    IF norm(val) \in TruthyTokens THEN <<"1">> ELSE EmptyStr

(***************************************************************************)
(* The two regular expressions of the URL backfill.                        *)
(***************************************************************************)
\* re.match(r"^(https?://)", s, re.I)
MatchesScheme(s) ==
    \/ lower(Slice(s, 1, 7)) = <<"h","t","t","p",":","/","/">>
    \/ lower(Slice(s, 1, 8)) = <<"h","t","t","p","s",":","/","/">>

\* "$" without re.MULTILINE: the end, or just before a final newline.
AtEnd(r) == r = <<>> \/ r = <<"\n">>

\* "(/.*)?$" on the rest of the string; "." matches no newline.
MatchesPath(r) ==
    \/ AtEnd(r)
    \/ /\ r # <<>>
       /\ r[1] = "/"
       /\ \E k \in 1..Len(r) :
            /\ \A m \in 2..k : r[m] # "\n"
            /\ AtEnd(Slice(r, k + 1, Len(r)))

\* re.match(r"^[a-z0-9.-]+\.[a-z]{2,}(/.*)?$", s, re.I)
MatchesBareDomain(s) ==
    \E i \in 2..Len(s) :
      /\ s[i] = "."
      /\ \A k \in 1..(i-1) : s[k] \in Letters \cup Digits \cup {".", "-"}
      /\ \E j \in (i+2)..Len(s) :
           /\ \A k \in (i+1)..j : s[k] \in Letters
           /\ MatchesPath(Slice(s, j + 1, Len(s)))

\* looks_like_url of convert, on a title that is a non-empty str.
looks_like_url(title) ==
    MatchesScheme(strip(title)) \/ MatchesBareDomain(strip(title))

(***************************************************************************)
(* urllib.parse.urlparse, as far as guess_name reads its result: whether   *)
(* the call raises ValueError, and the hostname property.  Modelled on     *)
(* CPython 3.11's urlsplit for ASCII text.  An address in brackets is      *)
(* accepted                                                                *)
(* when it is an IPv6 address written with hexadecimal groups and colons   *)
(* (no zone, no embedded dotted quad) or an IPvFuture literal.             *)
(***************************************************************************)
SchemeChars == Letters \cup Digits \cup {"+", "-", "."}

NotUnsafe(c) == c \notin {"\t", "\r", "\n"}

\* s.partition(c)[0] and s.partition(c)[2]
Before(s, c) == IF Find(s, c) = 0 THEN s ELSE Slice(s, 1, Find(s, c) - 1)

After(s, c) == IF Find(s, c) = 0 THEN <<>> ELSE Slice(s, Find(s, c) + 1, Len(s))

\* s.rpartition(c)[2]
AfterLast(s, c) == IF RFind(s, c) = 0 THEN s ELSE Slice(s, RFind(s, c) + 1, Len(s))

\* s.split(c)
RECURSIVE Split(_, _)
Split(s, c) ==
    IF Find(s, c) = 0 THEN <<s>>
    ELSE <<Before(s, c)>> \o Split(After(s, c), c)

\* ipaddress.IPv6Address accepts h (hexadecimal groups and colons only).
IsIPv6(h) ==
    LET parts == Split(h, ":")
        n == Len(parts)
        gaps == {i \in 2..(n-1) : parts[i] = <<>>}
    IN  /\ \A i \in 1..Len(h) : h[i] \in HexDigits \cup {":"}
        /\ n >= 3
        /\ n <= 9
        /\ Cardinality(gaps) <= 1
        /\ \A i \in 1..n : Len(parts[i]) <= 4
        /\ IF gaps # {}
           THEN LET sk == CHOOSE i \in gaps : TRUE
                    hi == IF parts[1] = <<>> THEN sk - 2 ELSE sk - 1
                    lo == IF parts[n] = <<>> THEN n - sk - 1 ELSE n - sk
                IN  /\ parts[1] = <<>> => hi = 0
                    /\ parts[n] = <<>> => lo = 0
                    /\ 8 - (hi + lo) >= 1
           ELSE /\ n = 8
                /\ parts[1] # <<>>
                /\ parts[n] # <<>>

\* re.match(r"\Av[a-fA-F0-9]+\..+\Z", h)
IsIPvFuture(h) ==
    \E i \in 3..(Len(h) - 1) :
      /\ h[1] = "v"
      /\ h[i] = "."
      /\ \A k \in 2..(i-1) : h[k] \in HexDigits
      /\ \A k \in (i+1)..Len(h) : h[k] # "\n"

\* _check_bracketed_host does not raise.
BracketedHostOk(h) ==
    IF h # <<>> /\ h[1] = "v" THEN IsIPvFuture(h) ELSE IsIPv6(h)

\* The check urlsplit makes of a netloc holding both brackets does not
\* raise: netloc.partition('[')[2].partition(']')[0] is a valid host.
BracketedNetlocOk(netloc) ==
    BracketedHostOk(Before(After(netloc, "["), "]"))

\* The netloc urlsplit finds in url ("" when the text after the scheme does
\* not start with "//").
Netloc(url) ==
    LET u0 == SelectSeq(Slice(url, FirstNonSpace(url), Len(url)), NotUnsafe)
        u1 == IF FirstNonSpace(url) = 0 THEN <<>> ELSE u0
        i  == Find(u1, ":")
        hasScheme == /\ i > 1
                     /\ u1[1] \in Letters
                     /\ \A k \in 1..(i-1) : u1[k] \in SchemeChars
        rest == IF hasScheme THEN Slice(u1, i + 1, Len(u1)) ELSE u1
        body == Slice(rest, 3, Len(rest))
        stops == {k \in 1..Len(body) : body[k] \in {"/", "?", "#"}}
        stop == IF stops = {} THEN Len(body) + 1
                ELSE CHOOSE k \in stops : \A m \in stops : k <= m
    IN  IF Slice(rest, 1, 2) = <<"/", "/">>
        THEN Slice(body, 1, stop - 1)
        ELSE <<>>

\* urlparse(url) raises ValueError.
UrlparseRaises(url) ==
    LET nl == Netloc(url)
        open == Find(nl, "[") # 0
        close == Find(nl, "]") # 0
    IN  \/ open /\ ~close
        \/ close /\ ~open
        \/ open /\ close /\ ~BracketedNetlocOk(nl)

\* urlparse(url).hostname, for a url on which urlparse does not raise.
Hostname(url) ==
    LET hostinfo == AfterLast(Netloc(url), "@")
        h == IF Find(hostinfo, "[") # 0
             THEN Before(After(hostinfo, "["), "]")
             ELSE Before(hostinfo, ":")
    IN  IF h = <<>> THEN None
        ELSE IF Find(h, "%") = 0 THEN lower(h)
        ELSE lower(Before(h, "%")) \o <<"%">> \o After(h, "%")

(***************************************************************************)
(* guess_name.                                                             *)
(***************************************************************************)
HttpsPrefix == <<"h","t","t","p","s",":","/","/">>

\* Mutant of guess_name: a url is never prefixed with https://.
guess_name_no_prefix(title, url) ==
    LET t == strip(OrEmpty(title))
        u == strip(OrEmpty(url))
    IN  IF t # <<>> THEN t
        ELSE IF u = <<>> THEN EmptyStr
        ELSE IF UrlparseRaises(u) THEN u
        ELSE IF strip(OrEmpty(Hostname(u))) # <<>>
             THEN strip(OrEmpty(Hostname(u)))
             ELSE u

\* Mutant of guess_name: the host is returned without the "or u" fallback.
guess_name_no_fallback(title, url) ==
    LET t == strip(OrEmpty(title))
        u == strip(OrEmpty(url))
        p == IF Contains(u, <<":", "/", "/">>) THEN u ELSE HttpsPrefix \o u
    IN  IF t # <<>> THEN t
        ELSE IF u = <<>> THEN EmptyStr
        ELSE IF UrlparseRaises(p) THEN u
        ELSE strip(OrEmpty(Hostname(p)))

\* guess_name(title, url); the try/except makes a raising urlparse return u.
guess_name(title, url) ==
    LET t == strip(OrEmpty(title))
        u == strip(OrEmpty(url))
        p == IF Contains(u, <<":", "/", "/">>) THEN u ELSE HttpsPrefix \o u
    IN  IF t # <<>> THEN t
        ELSE IF u = <<>> THEN EmptyStr
        ELSE IF UrlparseRaises(p) THEN u
        ELSE IF strip(OrEmpty(Hostname(p))) # <<>>
             THEN strip(OrEmpty(Hostname(p)))
             ELSE u

(***************************************************************************)
(* Row Normalizer: the body of the "for row in reader" loop of convert.    *)
(***************************************************************************)
\* row.get(h, "") on the dict csv.DictReader builds from one line:
\* dict(zip(fieldnames, cells)), so a repeated header keeps its last column,
\* and a header past the end of a short line is set to restval, None.
RowGet(fieldnames, cells, h) ==
    IF \E i \in 1..Len(fieldnames) : fieldnames[i] = h
    THEN LET i == CHOOSE i \in 1..Len(fieldnames) :
                    /\ fieldnames[i] = h
                    /\ \A j \in (i+1)..Len(fieldnames) : fieldnames[j] # h
         IN  IF i <= Len(cells) THEN cells[i] ELSE None
    ELSE EmptyStr

\* row.get(field_map.get(key, ""), "")
FieldValue(fieldnames, fm, cells, key) ==
    RowGet(fieldnames, cells, IF key \in DOMAIN fm THEN fm[key] ELSE EmptyStr)

\* The url after "if not url and title: ... url = title.strip()".
Backfill(title, url) ==
    IF ~Truthy(url) /\ Truthy(title) /\ looks_like_url(title)
    THEN strip(title)
    ELSE url

Login == <<"l","o","g","i","n">>

\* bw_row of convert.
bw_row(fieldnames, fm, cells) ==
    LET title == FieldValue(fieldnames, fm, cells, "title")
        url   == Backfill(title, FieldValue(fieldnames, fm, cells, "url"))
    IN  [ folder         |-> strip(OrEmpty(FieldValue(fieldnames, fm, cells, "folder"))),
          favorite       |-> to_bool_favorite(FieldValue(fieldnames, fm, cells, "favorite")),
          type           |-> Login,
          name           |-> guess_name(title, url),
          notes          |-> strip(OrEmpty(FieldValue(fieldnames, fm, cells, "notes"))),
          fields         |-> EmptyStr,
          login_uri      |-> strip(OrEmpty(url)),
          login_username |-> strip(OrEmpty(FieldValue(fieldnames, fm, cells, "username"))),
          login_password |-> strip(OrEmpty(FieldValue(fieldnames, fm, cells, "password"))),
          login_totp     |-> strip(OrEmpty(FieldValue(fieldnames, fm, cells, "totp"))) ]

\* Mutant of Keep: login_totp counts too.
Keep_with_totp(bw) ==
    \/ bw.name # <<>>
    \/ bw.login_uri # <<>>
    \/ bw.login_username # <<>>
    \/ bw.login_password # <<>>
    \/ bw.notes # <<>>
    \/ bw.login_totp # <<>>

\* any(bw_row[k] for k in ["name", "login_uri", "login_username",
\*                          "login_password", "notes"])
Keep(bw) ==
    \/ bw.name # <<>>
    \/ bw.login_uri # <<>>
    \/ bw.login_username # <<>>
    \/ bw.login_password # <<>>
    \/ bw.notes # <<>>

\* writer.writerow(bw_row): the values in the order of BW_HEADER.
WriterRow(bw) ==
    << bw.folder, bw.favorite, bw.type, bw.name, bw.notes, bw.fields,
       bw.login_uri, bw.login_username, bw.login_password, bw.login_totp >>

(***************************************************************************)
(* State of one call of convert(in_path, out_path).                        *)
(***************************************************************************)
VARIABLES
    pc,          \* position in convert
    f_in,        \* the input handle: "unopened", "open", "closed"
    f_out,       \* the output handle: "unopened", "open", "closed"
    out_file,    \* the output file on disk: "untouched" or "truncated"
    fieldnames,  \* reader.fieldnames: the header line of the input
    field_map,   \* the result of build_field_map
    consumed,    \* the lines the "for row in reader" loop has read, in order
    out,         \* the records written to the output, in order
    last,        \* the last line read, its bw_row, and whether it was written
    arg,         \* the argument of a function applied on its own
    res          \* its result

vars == << pc, f_in, f_out, out_file, fieldnames, field_map, consumed, out,
           last, arg, res >>

convertVars == << f_in, f_out, out_file, fieldnames, field_map, consumed, out,
                  last >>

NoRow == [row |-> <<>>, bw |-> <<>>, written |-> FALSE]

Idle == <<"idle">>

(***************************************************************************)
(* Inputs of convert: header lines and data lines.                         *)
(***************************************************************************)
H_Title == <<"T","i","t","l","e">>

H_URL == <<"U","R","L">>

H_OTP == <<"O","T","P">>

H_Password == <<"P","a","s","s","w","o","r","d">>

H_Favorite == <<"F","a","v","o","r","i","t","e">>

H_Notes == <<"N","o","t","e","s">>

H_Folder == <<"F","o","l","d","e","r">>

H_Username == <<"U","s","e","r","n","a","m","e">>

V_Domain == <<"a",".","i","o">>

\* The header lines convert is run on; <<>> is an input with no header row.
HeaderLines ==
    { <<>>,
      <<H_Title, H_URL>>,
      <<H_Title, H_OTP>>,
      <<EmptyStr, H_Password>>,
      <<H_Favorite, H_Notes>>,
      <<H_Folder, H_Username>>,
      <<H_URL>> }

\* The cell values of the data lines.
CellValues == { EmptyStr, <<" ">>, <<"1">>, V_Domain }

\* The data lines under a header of n columns.  csv.DictReader skips a line
\* with no cell at all; a short line leaves its last columns to restval.
DataLines(n) == UNION { [1..k -> CellValues] : k \in 1..n }

(***************************************************************************)
(* convert.                                                                *)
(***************************************************************************)
Init ==
    /\ pc = "start"
    /\ f_in = "unopened"
    /\ f_out = "unopened"
    /\ out_file = "untouched"
    /\ fieldnames \in HeaderLines
    /\ field_map = <<>>
    /\ consumed = <<>>
    /\ out = <<>>
    /\ last = NoRow
    /\ arg = Idle
    /\ res = Idle

\* with open(in_path, ...) as f_in
OpenInput ==
    /\ pc = "start"
    /\ f_in' = "open"
    /\ pc' = "read_header"
    /\ UNCHANGED << f_out, out_file, fieldnames, field_map, consumed, out,
                    last, arg, res >>

\* Mutant of RaiseNoHeader: the output file was opened before the header
\* was looked at.
RaiseNoHeader_output_opened ==
    /\ pc = "read_header"
    /\ fieldnames = <<>>
    /\ pc' = "raising"
    /\ f_out' = "closed"
    /\ out_file' = "truncated"
    /\ UNCHANGED << f_in, fieldnames, field_map, consumed, out, last, arg, res >>

\* if not reader.fieldnames: raise ValueError(...)
RaiseNoHeader ==
    /\ pc = "read_header"
    /\ fieldnames = <<>>
    /\ pc' = "raising"
    /\ UNCHANGED << f_in, f_out, out_file, fieldnames, field_map, consumed,
                    out, last, arg, res >>

\* The ValueError leaves the with block of f_in, which closes it.
ExitInputOnError ==
    /\ pc = "raising"
    /\ f_in' = "closed"
    /\ pc' = "failed"
    /\ UNCHANGED << f_out, out_file, fieldnames, field_map, consumed, out,
                    last, arg, res >>

\* field_map = build_field_map(reader.fieldnames)
BuildFieldMap ==
    /\ pc = "read_header"
    /\ fieldnames # <<>>
    /\ field_map' = build_field_map(fieldnames)
    /\ pc' = "open_out"
    /\ UNCHANGED << f_in, f_out, out_file, fieldnames, consumed, out, last,
                    arg, res >>

\* with open(out_path, "w", ...) as f_out
OpenOutput ==
    /\ pc = "open_out"
    /\ f_out' = "open"
    /\ out_file' = "truncated"
    /\ pc' = "write_header"
    /\ UNCHANGED << f_in, fieldnames, field_map, consumed, out, last, arg, res >>

\* Mutant of WriteHeader: no header record is written.
WriteHeader_skipped ==
    /\ pc = "write_header"
    /\ pc' = "loop"
    /\ UNCHANGED << f_in, f_out, out_file, fieldnames, field_map, consumed,
                    out, last, arg, res >>

\* writer.writeheader()
WriteHeader ==
    /\ pc = "write_header"
    /\ out' = Append(out, BW_HEADER)
    /\ pc' = "loop"
    /\ UNCHANGED << f_in, f_out, out_file, fieldnames, field_map, consumed,
                    last, arg, res >>

\* One pass of "for row in reader": read a line, build bw_row, write it
\* unless it is empty.
ProcessRow ==
    /\ pc = "loop"
    /\ Len(consumed) < MaxRows
    /\ \E cells \in DataLines(Len(fieldnames)) :
         \E bw \in { bw_row(fieldnames, field_map, cells) } :
             \E keep \in { Keep(bw) } :
                 /\ consumed' = Append(consumed, cells)
                 /\ out' = IF keep THEN Append(out, WriterRow(bw)) ELSE out
                 /\ last' = [row |-> cells, bw |-> bw, written |-> keep]
    /\ UNCHANGED << pc, f_in, f_out, out_file, fieldnames, field_map, arg, res >>

\* The reader is exhausted: the loop ends.
EndOfInput ==
    /\ pc = "loop"
    /\ pc' = "close_out"
    /\ UNCHANGED << f_in, f_out, out_file, fieldnames, field_map, consumed,
                    out, last, arg, res >>

\* Leaving the with block of f_out.
CloseOutput ==
    /\ pc = "close_out"
    /\ f_out' = "closed"
    /\ pc' = "close_in"
    /\ UNCHANGED << f_in, out_file, fieldnames, field_map, consumed, out,
                    last, arg, res >>

\* Leaving the with block of f_in.
CloseInput ==
    /\ pc = "close_in"
    /\ f_in' = "closed"
    /\ pc' = "done"
    /\ UNCHANGED << f_out, out_file, fieldnames, field_map, consumed, out,
                    last, arg, res >>

Next ==
    \/ OpenInput
    \/ RaiseNoHeader
    \/ ExitInputOnError
    \/ BuildFieldMap
    \/ OpenOutput
    \/ WriteHeader
    \/ ProcessRow
    \/ EndOfInput
    \/ CloseOutput
    \/ CloseInput

Spec == Init /\ [][Next]_vars

(***************************************************************************)
(* The functions applied on their own: the argument is drawn in the        *)
(* initial state and one step applies the function.                        *)
(***************************************************************************)
\* All concatenations of at most n strings of P.
RECURSIVE Concats(_, _)
Concats(P, n) ==
    IF n = 0 THEN { <<>> }
    ELSE LET S == Concats(P, n - 1)
         IN  S \cup { s \o p : s \in S, p \in P }

\* All sequences of at least one and at most n elements of P.
SeqsUpTo(P, n) == UNION { [1..k -> P] : k \in 1..n }

FnInit(args) ==
    /\ pc = "fn_ready"
    /\ arg \in args
    /\ res = Idle
    /\ f_in = "unopened"
    /\ f_out = "unopened"
    /\ out_file = "untouched"
    /\ fieldnames = <<>>
    /\ field_map = <<>>
    /\ consumed = <<>>
    /\ out = <<>>
    /\ last = NoRow

\* Header names for build_field_map.
HeaderPool ==
    { <<"l","o","g","i","n">>,
      <<"U","s","e","r","n","a","m","e">>,
      <<"u","s","e","r","_","n","a","m","e">>,
      <<"U","S","E","R"," ","N","A","M","E">>,
      <<"T","i","t","l","e">>,
      <<"n","a","m","e">>,
      <<>> }

MapInit == FnInit(SeqsUpTo(HeaderPool, MaxHeaders))

\* field_map = build_field_map(headers)
ApplyBuildFieldMap ==
    /\ pc = "fn_ready"
    /\ res' = build_field_map(arg)
    /\ pc' = "fn_done"
    /\ UNCHANGED << arg, convertVars >>

MapNext == ApplyBuildFieldMap

SpecMap == MapInit /\ [][MapNext]_vars

\* Pieces of the url argument of guess_name.
UrlPieces ==
    { <<"h","t","t","p","s",":","/","/">>,
      <<"S","u","b",".","E","x","a","m","p","l","e",".","c","o","m">>,
      <<"/","p","a","t","h">>,
      <<"u","@">>,
      <<":","8">>,
      <<"[">>,
      <<"]">>,
      <<":",":","1">>,
      <<" ">> }

\* The title argument of guess_name (None as well).
TitleArgs ==
    { <<>>,
      <<" ">>,
      <<"M","y"," ","B","a","n","k">>,
      <<" ","a",".","i","o"," ">> }

NameInit ==
    FnInit([title : TitleArgs \cup {None},
            url : Concats(UrlPieces, MaxPieces) \cup {None}])

\* guess_name(title, url)
ApplyGuessName ==
    /\ pc = "fn_ready"
    /\ res' = guess_name(arg.title, arg.url)
    /\ pc' = "fn_done"
    /\ UNCHANGED << arg, convertVars >>

NameNext == ApplyGuessName

SpecName == NameInit /\ [][NameNext]_vars

\* Pieces of the argument of to_bool_favorite.
FavPieces ==
    { <<"1">>,
      <<"0">>,
      <<"Y">>,
      <<"o","n">>,
      <<"T","R","U","E">>,
      <<"Y","e","s">>,
      <<"n","o">>,
      <<" ">>,
      <<"_">>,
      <<"-">> }

FavInit == FnInit(Concats(FavPieces, MaxPieces) \cup {None})

\* favorite = to_bool_favorite(favorite_raw)
ApplyToBoolFavorite ==
    /\ pc = "fn_ready"
    /\ res' = to_bool_favorite(arg)
    /\ pc' = "fn_done"
    /\ UNCHANGED << arg, convertVars >>

FavNext == ApplyToBoolFavorite

SpecFav == FavInit /\ [][FavNext]_vars

(***************************************************************************)
(* One pass of the loop of convert on its own, over richer cell values.    *)
(***************************************************************************)
\* The header lines of the rows normalized on their own.
RowHeaderLines ==
    { <<H_Title, H_URL, H_Username>>,
      <<H_Title, H_Username>>,
      <<H_URL, H_Notes>> }

\* The cell values of those rows.
RichCellValues ==
    { <<>>,
      <<" ">>,
      <<"a",".","i","o">>,
      <<" ","A",".","i","o"," ">>,
      <<"M","y"," ","B","a","n","k">>,
      <<"H","T","T","P","S",":","/","/","H","/","p">>,
      <<"a",".","i","o","/","x">>,
      <<"/","p">>,
      <<"[">>,
      <<"x",".","y">> }

RowInit ==
    /\ pc = "row_ready"
    /\ fieldnames \in RowHeaderLines
    /\ arg \in SeqsUpTo(RichCellValues, Len(fieldnames))
    /\ res = Idle
    /\ f_in = "open"
    /\ f_out = "open"
    /\ out_file = "truncated"
    /\ field_map = build_field_map(fieldnames)
    /\ consumed = <<>>
    /\ out = <<BW_HEADER>>
    /\ last = NoRow

\* The body of "for row in reader" on the line arg.
NormalizeRow ==
    /\ pc = "row_ready"
    /\ \E bw \in { bw_row(fieldnames, field_map, arg) } :
         \E keep \in { Keep(bw) } :
             /\ consumed' = Append(consumed, arg)
             /\ out' = IF keep THEN Append(out, WriterRow(bw)) ELSE out
             /\ last' = [row |-> arg, bw |-> bw, written |-> keep]
    /\ pc' = "row_done"
    /\ UNCHANGED << f_in, f_out, out_file, fieldnames, field_map, arg, res >>

RowNext == NormalizeRow

SpecRow == RowInit /\ [][RowNext]_vars

(***************************************************************************)
(* Properties.                                                             *)
(***************************************************************************)
InLoopOrAfter == pc \in {"loop", "close_out", "close_in", "done", "row_done"}

\* Every cell of the line that holds anything but whitespace is in the
\* column mapped to totp, folder or favorite.
OnlyAuxiliaryData(fn, fm, cells) ==
    \A i \in 1..Len(cells) :
        \/ strip(cells[i]) = <<>>
        \/ \E k \in {"totp", "folder", "favorite"} \cap DOMAIN fm : fm[k] = fn[i]

\* The values written for the lines rows, in order: one record per line
\* that passes the emptiness filter.
RECURSIVE SurvivingRows(_, _, _)
SurvivingRows(fn, fm, rows) ==
    IF rows = <<>> THEN <<>>
    ELSE (IF Keep(bw_row(fn, fm, Head(rows)))
          THEN << WriterRow(bw_row(fn, fm, Head(rows))) >>
          ELSE <<>>)
         \o SurvivingRows(fn, fm, Tail(rows))

\* C1: a line read by convert is written if and only if one of name,
\* login_uri, login_username, login_password, notes of its record is not
\* empty; a line whose only data is in the totp, folder or favorite columns
\* is not written; type and fields are constants and never decide.
C1_EmptinessFilter ==
    (InLoopOrAfter /\ consumed # <<>>) =>
        /\ last.written <=>
               \/ last.bw.name # <<>>
               \/ last.bw.login_uri # <<>>
               \/ last.bw.login_username # <<>>
               \/ last.bw.login_password # <<>>
               \/ last.bw.notes # <<>>
        /\ OnlyAuxiliaryData(fieldnames, field_map, last.row) => ~last.written
        /\ last.written => out[Len(out)] = WriterRow(last.bw)
        /\ last.bw.type = Login
        /\ last.bw.fields = <<>>

\* A line with a one-time-password value and nothing else was read and
\* was not written.
C1_Witness ==
    /\ pc = "done"
    /\ consumed # <<>>
    /\ last.bw.login_totp # <<>>
    /\ ~last.written
    /\ Len(out) = 1

\* C2: once the header is written, the output is the ten-name header
\* record followed by one record per line read so far that passes the
\* emptiness filter, in the order of the lines; the header record is there
\* even when no line survives; and nothing is written before it.
C2_OutputStream ==
    /\ InLoopOrAfter =>
          /\ out = << BW_HEADER >> \o SurvivingRows(fieldnames, field_map, consumed)
          /\ Len(out[1]) = 10
    /\ pc \notin {"loop", "close_out", "close_in", "done", "row_done"} =>
          out = <<>>

\* convert completed on two lines, both written, as two different records
\* in the order they were read.
C2_Witness ==
    /\ pc = "done"
    /\ Len(consumed) = 2
    /\ Len(out) = 3
    /\ out[2] # out[3]
    /\ out[2] = WriterRow(bw_row(fieldnames, field_map, consumed[1]))

\* C9: with no header row convert fails without reading a line, writing a
\* record or opening (creating, truncating) the output file; the failure is
\* the only way such a run ends; and whenever convert has ended, by
\* completion or by the failure, no handle is left open.
C9_NoHeaderFailure ==
    /\ fieldnames = <<>> =>
          /\ pc \in {"start", "read_header", "raising", "failed"}
          /\ consumed = <<>>
          /\ out = <<>>
          /\ f_out = "unopened"
          /\ out_file = "untouched"
          /\ pc # "failed" => ENABLED Next
    /\ pc = "failed" => fieldnames = <<>>
    /\ pc \in {"done", "failed"} => f_in = "closed" /\ f_out # "open"
    /\ pc = "done" => f_out = "closed"

\* convert has failed on an input with no header row.
C9_Witness ==
    /\ pc = "failed"
    /\ fieldnames = <<>>
    /\ f_in = "closed"
    /\ out_file = "untouched"


\* The columns of headers whose normal form is that of h.
SameNorm(headers, h) == {i \in 1..Len(headers) : norm(headers[i]) = norm(h)}

MinOf(S) == CHOOSE i \in S : \A j \in S : i <= j

MaxOf(S) == CHOOSE i \in S : \A j \in S : i >= j

MatchedSynonyms(headers, k) ==
    {i \in 1..Len(candidates[k]) :
        \E j \in 1..Len(headers) : norm(headers[j]) = normalized_candidates[k][i]}

\* headers rearranged by the permutation p of its indices.
Permuted(headers, p) == [i \in 1..Len(headers) |-> headers[p[i]]]

\* C4: a key is mapped exactly when one of its synonyms matches a header,
\* and then to a header of the input matching the earliest such synonym of
\* its list, whatever the order of the headers in the input.
C4_SynonymPriority ==
    pc = "fn_done" =>
        /\ \A k \in KeySet :
              /\ k \in DOMAIN res <=> MatchedSynonyms(arg, k) # {}
              /\ k \in DOMAIN res =>
                   /\ \E j \in 1..Len(arg) : arg[j] = res[k]
                   /\ norm(res[k]) =
                        normalized_candidates[k][MinOf(MatchedSynonyms(arg, k))]
        /\ \A p \in Permutations(1..Len(arg)) :
              LET m == build_field_map(Permuted(arg, p))
              IN  /\ DOMAIN m = DOMAIN res
                  /\ \A k \in DOMAIN res : norm(m[k]) = norm(res[k])

\* "login" comes before "Username" in the input and username is mapped to
\* the Username column.
C4_Witness ==
    /\ pc = "fn_done"
    /\ Len(arg) = 2
    /\ arg[1] = <<"l","o","g","i","n">>
    /\ arg[2] = <<"U","s","e","r","n","a","m","e">>
    /\ "username" \in DOMAIN res
    /\ res["username"] = arg[2]

\* The url and title values the loop reads from the last line.
LastTitle == FieldValue(fieldnames, field_map, last.row, "title")

LastUrl == FieldValue(fieldnames, field_map, last.row, "url")

\* C5 as claimed: a line whose url is empty once trimmed and whose trimmed
\* title is not empty is written with login_uri and name both the trimmed
\* title when that title is URL-shaped, and with an empty login_uri and the
\* title as name when it is not.
C5_UrlBackfill ==
    (pc = "row_done"
       /\ strip(OrEmpty(LastUrl)) = <<>>
       /\ strip(OrEmpty(LastTitle)) # <<>>) =>
        IF looks_like_url(LastTitle)
        THEN /\ last.written
             /\ last.bw.login_uri = strip(LastTitle)
             /\ last.bw.name = strip(LastTitle)
        ELSE /\ last.bw.login_uri = <<>>
             /\ last.bw.name = strip(LastTitle)

\* The output field a semantic key is copied to.
OutField(bw, k) ==
    CASE k = "username" -> bw.login_username
      [] k = "password" -> bw.login_password
      [] k = "notes"    -> bw.notes
      [] k = "totp"     -> bw.login_totp
      [] k = "folder"   -> bw.folder
      [] k = "favorite" -> bw.favorite
      [] k = "url"      -> bw.login_uri
      [] k = "title"    -> bw.name

\* C6 as claimed: in every written record the field of a key that
\* build_field_map left unmapped is empty, whatever the headers.  (For url
\* and title the value the record derives from the other one is allowed:
\* the backfilled title, the name guessed from the url.)
C6_UnmappedIsEmpty ==
    (InLoopOrAfter /\ consumed # <<>> /\ last.written) =>
        \A k \in KeySet \ DOMAIN field_map :
            \/ OutField(last.bw, k) = <<>>
            \/ /\ k = "url"
               /\ "title" \in DOMAIN field_map
               /\ last.bw.login_uri = strip(OrEmpty(LastTitle))
            \/ /\ k = "title"
               /\ "url" \in DOMAIN field_map
               /\ last.bw.name = guess_name(EmptyStr, last.bw.login_uri)

\* C7: the name is the trimmed title when that is not empty; else, for a
\* url not empty once trimmed, the host of the url (read with https:// in
\* front when it holds no "://"), trimmed, when urlparse does not raise and
\* the host is not empty, and the trimmed url itself otherwise; else empty.
C7_NameDerivation ==
    pc = "fn_done" =>
        LET t == strip(OrEmpty(arg.title))
            u == strip(OrEmpty(arg.url))
            target == IF Contains(u, <<":","/","/">>) THEN u ELSE HttpsPrefix \o u
            host == strip(OrEmpty(Hostname(target)))
        IN  /\ t # <<>> => res = t
            /\ (t = <<>> /\ u = <<>>) => res = <<>>
            /\ (t = <<>> /\ u # <<>>) =>
                  /\ (~UrlparseRaises(target) /\ host # <<>>) => res = host
                  /\ (UrlparseRaises(target) \/ host = <<>>) => res = u
            /\ (t = <<>> /\ u = <<"S","u","b",".","E","x","a","m","p","l","e",".","c","o","m","/","p","a","t","h">>)
                  => res = <<"s","u","b",".","e","x","a","m","p","l","e",".","c","o","m">>
            /\ (t = <<>> /\ u = <<"[">>) => res = <<"[">>
            /\ (t = <<>> /\ u = <<"/","p","a","t","h">>) => res = u

\* No title, a url without "://": the name is the host, lower-cased.
C7_Witness ==
    /\ pc = "fn_done"
    /\ arg.title = EmptyStr
    /\ arg.url = <<"S","u","b",".","E","x","a","m","p","l","e",".","c","o","m","/","p","a","t","h">>
    /\ res = <<"s","u","b",".","e","x","a","m","p","l","e",".","c","o","m">>

\* s with the character c put in after its first i characters.
Inserted(s, i, c) == Slice(s, 1, i) \o <<c>> \o Slice(s, i + 1, Len(s))

\* C8: to_bool_favorite returns "1" or "", for None too; it returns "1"
\* exactly when the normal form of the value is 1, true, yes, y or on; and
\* the result does not change with the case of the value or with a space,
\* tab, underscore or hyphen put anywhere in it.
C8_FavoriteCoercion ==
    pc = "fn_done" =>
        /\ res \in { <<>>, <<"1">> }
        /\ res = <<"1">> <=> norm(arg) \in TruthyTokens
        /\ arg = None => res = <<>>
        /\ arg = <<"T","R","U","E">> => res = <<"1">>
        /\ arg = <<"n","o">> => res = <<>>
        /\ arg # None =>
             /\ to_bool_favorite(upper(arg)) = res
             /\ to_bool_favorite(lower(arg)) = res
             /\ \A i \in 0..Len(arg) : \A c \in {" ", "\t", "_", "-"} :
                   to_bool_favorite(Inserted(arg, i, c)) = res

\* An upper-case token with separators inside is coerced to "1".
C8_Witness ==
    /\ pc = "fn_done"
    /\ arg = <<"Y","e","s","_","-">>
    /\ res = <<"1">>

\* C10: the name of a record is empty exactly when the trimmed title and
\* the trimmed url after the backfill (login_uri) are both empty; so a
\* written record with a login_uri has a name, and the emptiness filter
\* decides the same without login_uri.
C10_NameEmptyIff ==
    pc = "row_done" =>
        /\ last.bw.name = <<>> <=>
              (strip(OrEmpty(LastTitle)) = <<>> /\ last.bw.login_uri = <<>>)
        /\ last.bw.login_uri # <<>> => (last.written /\ last.bw.name # <<>>)
        /\ last.written <=>
              \/ last.bw.name # <<>>
              \/ last.bw.login_username # <<>>
              \/ last.bw.login_password # <<>>
              \/ last.bw.notes # <<>>

\* A line with no title and a url with no host: the name is the url.
C10_Witness ==
    /\ pc = "row_done"
    /\ strip(OrEmpty(LastTitle)) = <<>>
    /\ last.bw.login_uri = <<"/","p">>
    /\ last.bw.name = <<"/","p">>
    /\ last.written

=============================================================================
